---- MODULE Spec2Model ----
(***************************************************************************)
(* Model of src/streamlit_dashboard.py: a Streamlit script that is re-run  *)
(* top to bottom on every user interaction.  One action of the model is    *)
(* one interaction followed by the complete script run it triggers.        *)
(*                                                                         *)
(* Object keys and prefixes are sequences of path tokens, so that          *)
(* str.endswith and the store's prefix match are computed on the value.    *)
(* The object store is the environment: its content is chosen initially,   *)
(* and each call that reaches it may raise (network, permission) or, for   *)
(* a fetch, deliver a body that does not parse.                            *)
(***************************************************************************)
EXTENDS Integers, Sequences, FiniteSets, TLC

VARIABLES
    access_key,     \* sidebar text input "access_key"
    secret_key,     \* sidebar text input "secret_key"
    region,         \* sidebar selectbox "AWS Region"
    session_state,  \* widget key -> selected object key, for the file pickers
    clients,        \* st.cache_resource memo of get_s3_client: set of argument tuples
    listMemo,       \* st.cache_data memo of list_s3_files
    readMemo,       \* st.cache_data memo of read_s3_file
    nList,          \* list_objects_v2 calls made so far, per (client, bucket, prefix)
    nGet,           \* get_object calls made so far, per (client, bucket, key)
    store,          \* the keys the bucket holds
    page,           \* what the last script run displayed
    calls,          \* the store operations the last script run made
    answers,        \* how the store answered them
    faults          \* the calls the store has failed so far

vars == <<access_key, secret_key, region, session_state, clients, listMemo,
          readMemo, nList, nGet, store, page, calls, answers, faults>>

----------------------------------------------------------------------------
(* Bounds of the model *)

\* The store answers one list request with at most this many keys
\* (1000 for list_objects_v2; scaled down).
PageLimit == 2

\* Call counters saturate here.
MaxCalls == 2

\* The store fails at most this many calls of a session.
MaxFaults == 1

----------------------------------------------------------------------------
(* Values *)

Min(a, b) == IF a < b THEN a ELSE b

\* F applied to the value of e, e being evaluated once
Bind(e, F(_)) == CHOOSE y \in {F(x) : x \in {e}} : TRUE

AccessKeys == {"", "AKIA"}
SecretKeys == {"", "wJal"}

Regions == <<"us-east-1", "us-west-2", "eu-west-1">>

\* The regions the user switches between
UserRegions == {Regions[1], Regions[2]}

bucket_name == "azimuth-venue-analysis"

prefix1 == <<"Azimuth_Delivery", "/", "Azimuth_venue_analysis", "/">>
prefix2 == <<"Azimuth_Delivery", "/", "Deduplicate data", "/">>
prefix3 == <<"Azimuth_Delivery", "/", "Untreated data", "/">>

Views == 1..4

all_prefixes == <<prefix1, prefix2, prefix3>>

\* The keys the bucket may hold, in the order the store lists them.
StoreOrder ==
    << prefix1,
       prefix1 \o <<"venues", ".csv">>,
       prefix1 \o <<"notes", ".txt">>,
       prefix2 \o <<"dedup", ".json">>,
       prefix3 \o <<"raw", ".xlsx">> >>

Range(s) == {s[i] : i \in 1..Len(s)}

\* str.endswith / the store's prefix match, on token sequences
EndsWith(s, suffix) ==
    /\ Len(s) >= Len(suffix)
    /\ SubSeq(s, Len(s) - Len(suffix) + 1, Len(s)) = suffix

StartsWith(s, prefix) ==
    /\ Len(s) >= Len(prefix)
    /\ SubSeq(s, 1, Len(prefix)) = prefix

\* The contents considered: any part of the first folder, the other two
\* folders holding their file.
Stores ==
    {s \in SUBSET Range(StoreOrder) :
        \A k \in Range(StoreOrder) : StartsWith(k, prefix1) \/ k \in s}

None == [format |-> "None", key |-> <<>>]

DataFrame(format, key) == [format |-> format, key |-> key]

Outcomes == {"ok", "fetch_error", "parse_error"}

NoOracle == [lfail |-> {}, get |-> <<>>]

Outcome(o, key) == IF key \in DOMAIN o.get THEN o.get[key] ELSE "ok"

Bump(f, k) == IF k \in DOMAIN f
              THEN [f EXCEPT ![k] = Min(@ + 1, MaxCalls)]
              ELSE (k :> 1) @@ f

----------------------------------------------------------------------------
(* The object store *)

\* list_objects_v2(Bucket, Prefix) when it does not raise: the 'Contents' of
\* one response, i.e. the stored keys under the prefix in store order, cut
\* at the response limit.
list_objects_v2(st, prefix) ==
    LET under == SelectSeq(StoreOrder,
                           LAMBDA k : k \in st /\ StartsWith(k, prefix))
    IN  SubSeq(under, 1, Min(Len(under), PageLimit))

----------------------------------------------------------------------------
(* get_s3_client, list_s3_files, read_s3_file *)

\* Body of get_s3_client: None for an empty credential, else a handle bound
\* to the credential set.
get_s3_client(ak, sk, rg) ==
    IF ak = "" \/ sk = "" THEN <<>> ELSE <<ak, sk, rg>>

\* list_s3_files without its try/except: the exception of the list
\* operation leaves the function.
list_s3_files_body_unguarded(st, prefix, o) ==
    IF prefix \in o.lfail
    THEN [ret |-> <<>>, msgs |-> {}, ops |-> {<<"list", prefix>>},
          raised |-> TRUE]
    ELSE [ret |-> SelectSeq(list_objects_v2(st, prefix),
                            LAMBDA key : ~EndsWith(key, <<"/">>)),
          msgs |-> {},
          ops |-> {<<"list", prefix>>},
          raised |-> FALSE]

\* Body of list_s3_files: what it returns, the st.error notices it emits,
\* the store operations it makes, and whether an exception leaves it.
list_s3_files_body(st, prefix, o) ==
    IF prefix \in o.lfail
    THEN [ret |-> <<>>,
          msgs |-> {<<"error_listing", <<>>>>},
          ops |-> {<<"list", prefix>>},
          raised |-> FALSE]
    ELSE [ret |-> SelectSeq(list_objects_v2(st, prefix),
                            LAMBDA key : ~EndsWith(key, <<"/">>)),
          msgs |-> {},
          ops |-> {<<"list", prefix>>},
          raised |-> FALSE]

\* read_s3_file without its try/except
read_s3_file_body_unguarded(key, o) ==
    IF Outcome(o, key) = "fetch_error"
       \/ (Outcome(o, key) = "parse_error"
           /\ \E ext \in {".csv", ".xlsx", ".json"} : EndsWith(key, <<ext>>))
    THEN [ret |-> None, msgs |-> {}, ops |-> {<<"get", key>>},
          raised |-> TRUE]
    ELSE IF EndsWith(key, <<".csv">>)
    THEN [ret |-> DataFrame("csv", key), msgs |-> {},
          ops |-> {<<"get", key>>}, raised |-> FALSE]
    ELSE IF EndsWith(key, <<".xlsx">>)
    THEN [ret |-> DataFrame("xlsx", key), msgs |-> {},
          ops |-> {<<"get", key>>}, raised |-> FALSE]
    ELSE IF EndsWith(key, <<".json">>)
    THEN [ret |-> DataFrame("json", key), msgs |-> {},
          ops |-> {<<"get", key>>}, raised |-> FALSE]
    ELSE [ret |-> None, msgs |-> {}, ops |-> {<<"get", key>>},
          raised |-> FALSE]

\* Body of read_s3_file.  get_object is the first statement of the try
\* block; the dispatch on the extension follows it.
read_s3_file_body(key, o) ==
    LET failed == [ret |-> None,
                   msgs |-> {<<"error_reading", key>>},
                   ops |-> {<<"get", key>>},
                   raised |-> FALSE]
        parsed(format) ==
            IF Outcome(o, key) = "parse_error" THEN failed
            ELSE [ret |-> DataFrame(format, key), msgs |-> {},
                  ops |-> {<<"get", key>>}, raised |-> FALSE]
    IN  IF Outcome(o, key) = "fetch_error" THEN failed
        ELSE IF EndsWith(key, <<".csv">>) THEN parsed("csv")
        ELSE IF EndsWith(key, <<".xlsx">>) THEN parsed("xlsx")
        ELSE IF EndsWith(key, <<".json">>) THEN parsed("json")
        ELSE [ret |-> None, msgs |-> {},
              ops |-> {<<"get", key>>}, raised |-> FALSE]

\* A run of the script threads a record r through its statements:
\*   lm, rm      the two st.cache_data memos
\*   nl, ng      the call counters
\*   calls       store operations made in this run
\*   tabs        elements displayed per view, options: the pickers' options
\*   ss          widget state of the pickers rendered in this run
\*   exc         an exception has left a function: the run is over
\*   ret         the value of the last call

\* @st.cache_data: a stored entry is returned and its notices replayed; else
\* the body runs and, unless it raises, its result is stored.  Entries are
\* keyed by the arguments; the client handle counts as the credential set it
\* was built from, since st.cache_resource hands out one handle per set.
Memoized(r, v, memo, k, body) ==
    IF k \in DOMAIN memo
    THEN [r EXCEPT !.ret = memo[k].ret,
                   !.tabs[v] = @ \cup memo[k].msgs]
    ELSE [r EXCEPT !.ret = body.ret,
                   !.tabs[v] = @ \cup body.msgs,
                   !.calls = @ \cup body.ops,
                   !.exc = body.raised]

\* list_s3_files without @st.cache_data: the body runs on every call
list_s3_files_undecorated(r, v, s3_client, bucket, prefix, st, o) ==
    LET k == <<s3_client, bucket, prefix>>
        body == list_s3_files_body(st, prefix, o)
    IN  [r EXCEPT !.ret = body.ret,
                  !.tabs[v] = @ \cup body.msgs,
                  !.calls = @ \cup body.ops,
                  !.exc = body.raised,
                  !.nl = Bump(@, k),
                  !.lm = (k :> [ret |-> body.ret, msgs |-> body.msgs]) @@ @]

\* list_s3_files as decorated, called while view v is the open container
list_s3_files(r, v, s3_client, bucket, prefix, st, o) ==
    LET k == <<s3_client, bucket, prefix>>
        body == list_s3_files_body(st, prefix, o)
        r1 == Memoized(r, v, r.lm, k, body)
    IN  IF k \in DOMAIN r.lm THEN r1
        ELSE [r1 EXCEPT !.nl = Bump(@, k),
                        !.lm = IF body.raised THEN @
                               ELSE (k :> [ret |-> body.ret, msgs |-> body.msgs]) @@ @]

\* read_s3_file as decorated
read_s3_file(r, v, s3_client, bucket, key, o) ==
    LET k == <<s3_client, bucket, key>>
        body == read_s3_file_body(key, o)
        r1 == Memoized(r, v, r.rm, k, body)
    IN  IF k \in DOMAIN r.rm THEN r1
        ELSE [r1 EXCEPT !.ng = Bump(@, k),
                        !.rm = IF body.raised THEN @
                               ELSE (k :> [ret |-> body.ret, msgs |-> body.msgs]) @@ @]

----------------------------------------------------------------------------
(* The views *)

\* The explorer's picker given the key of the first view's
WidgetKey_shared(v) ==
    CASE v = 1 -> "file1"
      [] v = 2 -> "file2"
      [] v = 3 -> "file3"
      [] v = 4 -> "file1"

\* The key= of each view's file picker
WidgetKey(v) ==
    CASE v = 1 -> "file1"
      [] v = 2 -> "file2"
      [] v = 3 -> "file3"
      [] v = 4 -> "file_explorer"

\* st.selectbox with a key: the value kept in the session if it is still
\* one of the options, else the first option.
selectbox(options, ss, key) ==
    IF key \in DOMAIN ss /\ ss[key] \in Range(options)
    THEN ss[key]
    ELSE options[1]

\* The second and third view without their download button
ShowFrame_nodownload(v, sel) ==
    CASE v = 1 -> {<<"shape", sel>>, <<"metric_rows", sel>>,
                   <<"metric_columns", sel>>, <<"table", sel>>,
                   <<"statistics", sel>>, <<"download", sel>>}
      [] v \in {2, 3} -> {<<"shape", sel>>, <<"table", sel>>}
      [] v = 4 -> {<<"metric_rows", sel>>, <<"metric_columns", sel>>,
                   <<"metric_memory", sel>>, <<"preview", sel>>,
                   <<"column_info", sel>>, <<"download", sel>>}

\* What a view displays for a loaded frame.  (The histogram of the explorer
\* depends on the column types of the frame, which are not modelled.)
ShowFrame(v, sel) ==
    CASE v = 1 -> {<<"shape", sel>>, <<"metric_rows", sel>>,
                   <<"metric_columns", sel>>, <<"table", sel>>,
                   <<"statistics", sel>>, <<"download", sel>>}
      [] v \in {2, 3} -> {<<"shape", sel>>, <<"table", sel>>,
                          <<"download", sel>>}
      [] v = 4 -> {<<"metric_rows", sel>>, <<"metric_columns", sel>>,
                   <<"metric_memory", sel>>, <<"preview", sel>>,
                   <<"column_info", sel>>, <<"download", sel>>}

\* `if files: ... else: st.warning(...)` of a view, after its listing
FileSection(r, v, s3_client, files, ss, o) ==
    IF r.exc THEN r
    ELSE IF files = <<>>
    THEN [r EXCEPT !.tabs[v] = @ \cup {<<"no_files", <<>>>>}]
    ELSE LET sel == selectbox(files, ss, WidgetKey(v))
             r1 == [r EXCEPT !.options[v] = files,
                             !.ss = (WidgetKey(v) :> sel) @@ @]
         IN  IF sel = <<>> THEN r1
             ELSE Bind(read_s3_file(r1, v, s3_client, bucket_name, sel, o),
                       LAMBDA r2 :
                         IF ~r2.exc /\ r2.ret # None
                         THEN [r2 EXCEPT !.tabs[v] = @ \cup ShowFrame(v, sel)]
                         ELSE r2)

\* tab1, tab2, tab3
FixedTab(r, v, s3_client, ss, st, o) ==
    IF r.exc THEN r
    ELSE Bind(list_s3_files(r, v, s3_client, bucket_name,
                            all_prefixes[v], st, o),
              LAMBDA r1 : FileSection(r1, v, s3_client, r1.ret, ss, o))

\* the listing loop of tab4 over all_prefixes[i..3]; all_files is kept in ret
RECURSIVE ExplorerListing(_, _, _, _, _, _)
ExplorerListing(r, i, all_files, s3_client, st, o) ==
    IF r.exc THEN r
    ELSE IF i > Len(all_prefixes) THEN [r EXCEPT !.ret = all_files]
    ELSE Bind(list_s3_files(r, 4, s3_client, bucket_name,
                            all_prefixes[i], st, o),
              LAMBDA r1 :
                IF r1.exc THEN r1
                ELSE ExplorerListing(r1, i + 1, all_files \o r1.ret,
                                     s3_client, st, o))

\* tab4
ExplorerTab(r, s3_client, ss, st, o) ==
    IF r.exc THEN r
    ELSE Bind(ExplorerListing(r, 1, <<>>, s3_client, st, o),
              LAMBDA r1 : FileSection(r1, 4, s3_client, r1.ret, ss, o))

----------------------------------------------------------------------------
(* One run of the script *)

NoTabs == [v \in Views |-> {}]
NoOptions == [v \in Views |-> <<>>]

\* The gate written with `and`
Gate_and(ak, sk) == ak = "" /\ sk = ""

\* `if not access_key or not secret_key` of the main content
Gate(ak, sk) == ak = "" \/ sk = ""

\* The run with the sidebar values ak, sk, rg, the widget state ss, the
\* memos and counters m, the store content st and the store's answers o.
Script(ak, sk, rg, ss, m, st, o) ==
    LET r0 == [lm |-> m.lm, rm |-> m.rm, nl |-> m.nl, ng |-> m.ng,
               calls |-> {}, tabs |-> NoTabs, options |-> NoOptions,
               ss |-> <<>>, exc |-> FALSE, ret |-> <<>>]
        blank == [prompt |-> FALSE, success |-> FALSE, tabbed |-> FALSE,
                  tabs |-> NoTabs, options |-> NoOptions, footer |-> TRUE]
    IN  IF Gate(ak, sk)
        THEN [r |-> r0, clients |-> m.clients,
              page |-> [blank EXCEPT !.prompt = TRUE]]
        ELSE LET s3_client == get_s3_client(ak, sk, rg)
                 made == m.clients \cup {<<ak, sk, rg>>}
             IN  IF s3_client = <<>>
                 THEN [r |-> r0, clients |-> made, page |-> blank]
                 ELSE Bind(FixedTab(r0, 1, s3_client, ss, st, o), LAMBDA r1 :
                      Bind(FixedTab(r1, 2, s3_client, ss, st, o), LAMBDA r2 :
                      Bind(FixedTab(r2, 3, s3_client, ss, st, o), LAMBDA r3 :
                      Bind(ExplorerTab(r3, s3_client, ss, st, o), LAMBDA r4 :
                        [r |-> r4, clients |-> made,
                         page |-> [prompt |-> FALSE, success |-> TRUE,
                                   tabbed |-> TRUE, tabs |-> r4.tabs,
                                   options |-> r4.options,
                                   footer |-> ~r4.exc]]))))

Memos == [lm |-> listMemo, rm |-> readMemo, nl |-> nList, ng |-> nGet,
          clients |-> clients]

\* The store operations a run would make, by kind, when nothing fails:
\* the calls whose answer the environment has to choose.
Asked(ak, sk, rg, ss, o, kind) ==
    {c[2] : c \in {x \in Script(ak, sk, rg, ss, Memos, store, o).r.calls :
                     x[1] = kind}}

Faults(lfail, get) ==
    Cardinality(lfail) + Cardinality({k \in DOMAIN get : get[k] # "ok"})

\* An interaction has set the sidebar to ak, sk, rg and the widget state to
\* ss; the script runs, the store answering as it chooses.
Rerun(ak, sk, rg, ss) ==
    \E lfail \in {l \in SUBSET Asked(ak, sk, rg, ss, NoOracle, "list") :
                    faults + Cardinality(l) <= MaxFaults} :
    \E get \in {g \in [Asked(ak, sk, rg, ss,
                              [lfail |-> lfail, get |-> <<>>], "get")
                        -> Outcomes] :
                    faults + Faults(lfail, g) <= MaxFaults} :
    \E run \in {Script(ak, sk, rg, ss, Memos, store,
                        [lfail |-> lfail, get |-> get])} :
            /\ access_key' = ak
            /\ secret_key' = sk
            /\ region' = rg
            /\ session_state' = run.r.ss
            /\ clients' = run.clients
            /\ listMemo' = run.r.lm
            /\ readMemo' = run.r.rm
            /\ nList' = run.r.nl
            /\ nGet' = run.r.ng
            /\ page' = run.page
            /\ calls' = run.r.calls
            /\ answers' = [lfail |-> lfail, get |-> get]
            /\ faults' = faults + Faults(lfail, get)
            /\ UNCHANGED store

----------------------------------------------------------------------------
(* Interactions *)

\* The user edits the access key field.
SetAccessKey ==
    \E ak \in AccessKeys \ {access_key} :
        Rerun(ak, secret_key, region, session_state)

\* The user edits the secret key field.
SetSecretKey ==
    \E sk \in SecretKeys \ {secret_key} :
        Rerun(access_key, sk, region, session_state)

\* The user picks another region.
SetRegion ==
    \E rg \in UserRegions \ {region} :
        Rerun(access_key, secret_key, rg, session_state)

\* The user picks a file in the picker of view v.
SelectFile(v) ==
    /\ WidgetKey(v) \in DOMAIN session_state
    /\ \E f \in Range(page.options[v]) \ {session_state[WidgetKey(v)]} :
        Rerun(access_key, secret_key, region,
              [session_state EXCEPT ![WidgetKey(v)] = f])

\* Any other interaction (a download button, a reload of the page).
Refresh ==
    Rerun(access_key, secret_key, region, session_state)

Init ==
    /\ access_key = ""
    /\ secret_key = ""
    /\ region = Regions[1]
    /\ session_state = <<>>
    /\ clients = {}
    /\ listMemo = <<>>
    /\ readMemo = <<>>
    /\ nList = <<>>
    /\ nGet = <<>>
    /\ store \in Stores
    /\ page = Script("", "", Regions[1], <<>>,
                     [lm |-> <<>>, rm |-> <<>>, nl |-> <<>>, ng |-> <<>>,
                      clients |-> {}], {}, NoOracle).page
    /\ calls = {}
    /\ answers = NoOracle
    /\ faults = 0

Next ==
    \/ SetAccessKey
    \/ SetSecretKey
    \/ SetRegion
    \/ \E v \in Views : SelectFile(v)
    \/ Refresh

Spec == Init /\ [][Next]_vars

----------------------------------------------------------------------------
(* Properties *)

\* The client handle of the current credentials
Client == <<access_key, secret_key, region>>

ListKey(v) == <<Client, bucket_name, all_prefixes[v]>>
ReadKey(key) == <<Client, bucket_name, key>>

\* The file selected in view v, <<>> when its picker is not displayed
Selected(v) ==
    IF WidgetKey(v) \in DOMAIN session_state
    THEN session_state[WidgetKey(v)]
    ELSE <<>>

Recognized(key) ==
    \E ext \in {".csv", ".xlsx", ".json"} : EndsWith(key, <<ext>>)

\* The keys the store holds under a prefix, directory markers left out
StoredFiles(prefix) ==
    SelectSeq(StoreOrder,
              LAMBDA k : /\ k \in store
                         /\ StartsWith(k, prefix)
                         /\ ~EndsWith(k, <<"/">>))

FixedViews == {1, 2, 3}

ListError == <<"error_listing", <<>>>>
NoFiles == <<"no_files", <<>>>>

\* C1: whenever the access key or the secret key is empty, the run made no
\* store operation, asked for no client handle, displayed none of the four
\* views, and displayed the credentials prompt.
C1_GateBlocksEverything ==
    (access_key = "" \/ secret_key = "") =>
        /\ calls = {}
        /\ Client \notin clients
        /\ \A c \in clients : c[1] # "" /\ c[2] # ""
        /\ page.prompt
        /\ ~page.success
        /\ ~page.tabbed
        /\ page.tabs = NoTabs
        /\ page.options = NoOptions

\* C1 witness: one credential was cleared after the views had been shown.
C1_Witness ==
    /\ access_key = ""
    /\ secret_key # ""
    /\ clients # {}
    /\ listMemo # <<>>

\* C2: a listing that did not fail, for a prefix under which the store
\* holds at least one non-directory object, is exactly the stored keys
\* under the prefix without the directory markers, in store order.
C2_ListingIsComplete ==
    \A k \in DOMAIN listMemo :
        (listMemo[k].msgs = {} /\ StoredFiles(k[3]) # <<>>)
            => listMemo[k].ret = StoredFiles(k[3])

\* C3: no get_object call is made for a key whose extension is none of
\* .csv, .xlsx, .json.
C3_NoFetchForUnknownExtension ==
    \A c \in calls : c[1] = "get" => Recognized(c[2])

\* C4: no exception leaves read_s3_file (the run reaches its end); a load
\* returns either absent or the complete frame of the key; it returns a
\* frame only for a recognized extension, and a load that reached the store
\* returns a frame exactly when the extension is recognized and the fetch
\* and the parse succeeded; when it returns absent the view displays nothing
\* of a frame.
C4_LoadAllOrNothing ==
    page.tabbed =>
        /\ page.footer
        /\ \A v \in Views :
             Selected(v) # <<>> =>
                LET sel == Selected(v)
                    k == ReadKey(sel)
                IN  /\ k \in DOMAIN readMemo
                    /\ \/ readMemo[k].ret = None
                       \/ /\ Recognized(sel)
                          /\ readMemo[k].ret.key = sel
                          /\ EndsWith(sel, <<"." \o readMemo[k].ret.format>>)
                    /\ <<"get", sel>> \in calls =>
                         ((readMemo[k].ret # None) <=>
                             (Recognized(sel) /\ answers.get[sel] = "ok"))
                    /\ readMemo[k].ret = None =>
                         page.tabs[v] \cap ShowFrame(v, sel) = {}

\* C4 witness: a load of a file with a recognized extension failed in this
\* run and the run went on to its end.
C4_Witness ==
    /\ page.tabbed
    /\ \E v \in Views :
         /\ Selected(v) # <<>>
         /\ Recognized(Selected(v))
         /\ <<"get", Selected(v)>> \in calls
         /\ answers.get[Selected(v)] # "ok"
         /\ readMemo[ReadKey(Selected(v))].ret = None

\* C5: every load that yields no frame comes with an error notice in the
\* view, naming the key.
C5_AbsentFrameIsReported ==
    page.tabbed =>
        \A v \in Views :
            (Selected(v) # <<>> /\ readMemo[ReadKey(Selected(v))].ret = None)
                => <<"error_reading", Selected(v)>> \in page.tabs[v]

\* C6: when the list operation raises for the prefix of a view, the run
\* still reaches its end, the listing is empty, the view displays the error
\* and the 'no files found' notice, and every other view is listed and
\* displayed from its own listing.
C6_ListFailureIsScoped ==
    \A v \in FixedViews :
        all_prefixes[v] \in answers.lfail =>
            /\ page.tabbed
            /\ page.footer
            /\ ListKey(v) \in DOMAIN listMemo
            /\ listMemo[ListKey(v)].ret = <<>>
            /\ ListError \in page.tabs[v]
            /\ NoFiles \in page.tabs[v]
            /\ \A w \in FixedViews \ {v} :
                 /\ ListKey(w) \in DOMAIN listMemo
                 /\ page.options[w] = listMemo[ListKey(w)].ret
                 /\ page.options[w] = <<>> => NoFiles \in page.tabs[w]
                 /\ page.options[w] # <<>> =>
                      /\ Selected(w) \in Range(page.options[w])
                      /\ ReadKey(Selected(w)) \in DOMAIN readMemo
            /\ page.options[4] = listMemo[ListKey(1)].ret
                                   \o listMemo[ListKey(2)].ret
                                   \o listMemo[ListKey(3)].ret

\* C6 witness: a listing failed in this run and another view displays the
\* table of its selected file.
C6_Witness ==
    \E v \in FixedViews :
        /\ all_prefixes[v] \in answers.lfail
        /\ NoFiles \in page.tabs[v]
        /\ \E w \in FixedViews \ {v} :
             <<"table", Selected(w)>> \in page.tabs[w]

\* The load of the file selected in view v returned a frame
Loaded(v) ==
    /\ page.tabbed
    /\ Selected(v) # <<>>
    /\ ReadKey(Selected(v)) \in DOMAIN readMemo
    /\ readMemo[ReadKey(Selected(v))].ret # None

C8_AtMostOneCallPerInput ==
    /\ [](/\ \A k \in DOMAIN nList : nList[k] <= 1
          /\ \A k \in DOMAIN nGet : nGet[k] <= 1)
    /\ [][/\ \A k \in DOMAIN listMemo :
                k \in DOMAIN listMemo' /\ listMemo'[k] = listMemo[k]
          /\ \A k \in DOMAIN readMemo :
                k \in DOMAIN readMemo' /\ readMemo'[k] = readMemo[k]]_vars

\* C8 witness: a run displayed the four views, a loaded file among them,
\* without any store operation.
C8_Witness ==
    /\ page.tabbed
    /\ calls = {}
    /\ \A v \in FixedViews : ListKey(v) \in DOMAIN nList /\ nList[ListKey(v)] = 1
    /\ \E v \in Views : Loaded(v)

\* C9: after a listing or a load has failed, the next run with the same
\* client that lists the same prefix, or has the same key selected, calls
\* the store again.
C9_FailureIsRetried ==
    [][(page.tabbed /\ page'.tabbed /\ Client' = Client) =>
          /\ \A v \in FixedViews :
               ListError \in page.tabs[v]
                   => <<"list", all_prefixes[v]>> \in calls'
          /\ \A v \in Views :
               (/\ Selected(v) # <<>>
                /\ <<"error_reading", Selected(v)>> \in page.tabs[v]
                /\ Selected(v)' = Selected(v))
                   => <<"get", Selected(v)>> \in calls']_vars

\* C10: the four pickers have four distinct keys, and a change of the
\* selection of one view leaves the selection of every other view as it was.
C10_SelectionsAreIndependent ==
    [][/\ Cardinality({WidgetKey(v) : v \in Views}) = 4
       /\ \A v \in Views :
            SelectFile(v) =>
                \A w \in Views \ {v} : Selected(w)' = Selected(w)]_vars

\* C10 witness: the first view and the explorer both show a file other
\* than the first of their list, each picked by the user.
C10_Witness ==
    /\ page.tabbed
    /\ Len(page.options[1]) > 1
    /\ Selected(1) # page.options[1][1]
    /\ Selected(4) # page.options[4][1]
    /\ Selected(4) # Selected(1)

====
